---- MODULE Spec2Model ----
(***************************************************************************)
(* Model of util/image_processor.py: the recursive tiler that splits an    *)
(* image that is too large for the Vision API into two overlapping tiles,  *)
(* sends the tiles to OCR and merges the two responses.                    *)
(*                                                                         *)
(* One call of call_vision_api is modelled.  The call stack of             *)
(* _call_vision_api_helper is the variable stack; the files on disk are    *)
(* the variable files.  The external services (the Vision API, the JPEG    *)
(* encoder that decides a tile's file size) are nondeterministic choices   *)
(* from small sets.                                                        *)
(***************************************************************************)
EXTENDS Integers, Sequences, FiniteSets, TLC

VARIABLES
  args,      \* the arguments of call_vision_api and the downloaded image
  stack,     \* frames of _call_vision_api_helper, the root call first
  files,     \* the image files that exist: file name -> image
  ocrCalls,  \* the calls made to vision_client.document_text_detection
  status,    \* "running", "returned" or "failed"
  error,     \* the exception that ended the call, "none" otherwise
  result     \* the value call_vision_api returned

vars == <<args, stack, files, ocrCalls, status, error, result>>

----------------------------------------------------------------------------
(* Bounds of the model. *)

\* image widths and heights are 1..MaxDim
MaxDim == 3
\* the interpreter's recursion limit: the most frames the stack can hold
MaxDepth == 3
\* the widths and heights of the images divided under SplitSpec are
\* 1..MaxSplitDim
MaxSplitDim == 50

----------------------------------------------------------------------------
(* Sizes in bytes.  A quantity [c |-> c, e |-> e] is the number            *)
(* c * (1024*1024)^e, with 0 <= c < 1024*1024, so that multiplying by      *)
(* 1024 * 1024 is exact and two quantities compare exactly.                *)

Quantity(c, e) == [c |-> c, e |-> e]

\* q * 1024 * 1024
TimesMegabyte(q) == [q EXCEPT !.e = q.e + 1]

\* a < b
Lt(a, b) ==
  IF b.c = 0 THEN FALSE
  ELSE IF a.c = 0 THEN TRUE
  ELSE IF a.e # b.e THEN a.e < b.e
  ELSE a.c < b.c

\* The file sizes the encoder can produce: 500 bytes, 3 MB, 40 MB.
FileSizes == {Quantity(500, 0), Quantity(3, 1), Quantity(40, 1)}

\* The values of max_size_megabytes tried: 0, 1/(1024*1024) (a budget of one
\* byte) and the default 20.
MaxSizeMegabytes == {Quantity(0, 0), Quantity(1, -1), Quantity(20, 0)}

\* The values of overlap tried, as fractions: 0, 1/4 (the default), 1/2,
\* 3/4 and 1.
Overlaps == {[num |-> 0, den |-> 1], [num |-> 1, den |-> 4],
             [num |-> 1, den |-> 2], [num |-> 3, den |-> 4],
             [num |-> 1, den |-> 1]}

\* The values of overlap tried under SplitSpec: 1/8, 1/4, 1/2, 3/4, and
\* 1/10, 1/3, 0.56, which no double equals.
SplitOverlaps == {[num |-> 1, den |-> 8], [num |-> 1, den |-> 4],
                  [num |-> 1, den |-> 2], [num |-> 3, den |-> 4],
                  [num |-> 1, den |-> 10], [num |-> 1, den |-> 3],
                  [num |-> 56, den |-> 100]}

----------------------------------------------------------------------------
(* Files, tiles and responses. *)

\* The name of the downloaded image; a tile is named by its path from the
\* root: 1 for the first file _divide_image_* returns, 2 for the second.
Original == <<>>

Image(w, h, s) == [width |-> w, height |-> h, size |-> s]

AddFile(fs, name, img) == (name :> img) @@ fs

\* os.remove(name)
RemoveFile(fs, name) == [n \in (DOMAIN fs) \ {name} |-> fs[n]]

\* the separating space of '{} {}'.format(...)
Space == <<0>>

Levels == {"block", "paragraph", "word", "symbol"}

\* The bounding box the Vision API reports for an element that fills a
\* w x h image: 4 vertices <<x, y>> in the image's own coordinates.
LocalBox(w, h) == <<  <<0, 0>>, <<w, 0>>, <<w, h>>, <<0, h>>  >>

\* The outcomes of one document_text_detection call: text was recognised, or
\* the response carries an error code (and no text, no page).
OcrOutcomes == {"text", "error"}

NoResponse == [kind |-> "none", error |-> 0, text |-> <<>>, pages |-> <<>>]

\* vision_client.document_text_detection(image): an AnnotateImageResponse.
\* The fields tile, origin and local of a page are history: the tile the
\* page was recognised in, the tile's origin in the original image, and the
\* box as the API reported it.
DocumentTextDetection(frame, outcome) ==
  IF outcome = "text"
  THEN [kind |-> "response", error |-> 0,
        text |-> << frame.tile >>,
        pages |-> << [tile |-> frame.tile, origin |-> frame.origin,
                      local |-> LocalBox(frame.width, frame.height),
                      boxes |-> [l \in Levels |->
                                  LocalBox(frame.width, frame.height)]] >>]
  ELSE [kind |-> "response", error |-> 1, text |-> <<>>, pages |-> <<>>]

----------------------------------------------------------------------------
(* The Tile Splitter. *)

(* Python floats.  overlap is a float, so width * overlap, the sum, the     *)
(* difference and the halving are IEEE-754 double operations: the exact    *)
(* result rounded to 53 significant bits, ties to even.  A double that is  *)
(* not negative is [m |-> m, e |-> e], the number m * 2^e with m < 2^53.   *)
(* The integer m is a sequence of limbs, digits in base 2^15, the least    *)
(* significant first.  No value of the model is negative, subnormal or out *)
(* of range.                                                               *)

\* the bits of a limb
LimbBits == 15

RECURSIVE Pow2(_)
Pow2(k) == IF k = 0 THEN 1 ELSE 2 * Pow2(k - 1)

Base == Pow2(LimbBits)

RECURSIVE NatToLimbs(_)
NatToLimbs(n) == IF n = 0 THEN <<>> ELSE <<n % Base>> \o NatToLimbs(n \div Base)

RECURSIVE LimbsToNat(_)
LimbsToNat(a) == IF a = <<>> THEN 0 ELSE a[1] + Base * LimbsToNat(Tail(a))

\* a without its leading zero limbs
RECURSIVE Strip(_)
Strip(a) ==
  IF a # <<>> /\ a[Len(a)] = 0 THEN Strip(SubSeq(a, 1, Len(a) - 1)) ELSE a

Limb(a, i) == IF i <= Len(a) THEN a[i] ELSE 0

RECURSIVE AddFrom(_, _, _, _)
AddFrom(a, b, i, carry) ==
  IF i > Len(a) /\ i > Len(b)
  THEN IF carry = 0 THEN <<>> ELSE <<carry>>
  ELSE LET s == Limb(a, i) + Limb(b, i) + carry
       IN <<s % Base>> \o AddFrom(a, b, i + 1, s \div Base)

\* a + b
AddLimbs(a, b) == AddFrom(a, b, 1, 0)

RECURSIVE SubFrom(_, _, _, _)
SubFrom(a, b, i, borrow) ==
  IF i > Len(a) /\ i > Len(b)
  THEN <<>>
  ELSE LET s == Limb(a, i) - Limb(b, i) - borrow
       IN <<IF s < 0 THEN s + Base ELSE s>> \o
          SubFrom(a, b, i + 1, IF s < 0 THEN 1 ELSE 0)

\* a - b, for a >= b
SubLimbs(a, b) == Strip(SubFrom(a, b, 1, 0))

\* a * n, for a number 0 <= n < 2^15
RECURSIVE MulSmallFrom(_, _, _, _)
MulSmallFrom(a, n, i, carry) ==
  IF i > Len(a)
  THEN IF carry = 0 THEN <<>> ELSE <<carry>>
  ELSE LET s == a[i] * n + carry
       IN <<s % Base>> \o MulSmallFrom(a, n, i + 1, s \div Base)

MulSmall(a, n) == MulSmallFrom(a, n, 1, 0)

\* a * b
RECURSIVE MulLimbs(_, _)
MulLimbs(a, b) ==
  IF b = <<>> THEN <<>>
  ELSE AddLimbs(MulSmall(a, b[1]), <<0>> \o MulLimbs(a, Tail(b)))

\* quotient and remainder of a by the number den, 0 < den < 2^15
RECURSIVE DivSmall(_, _)
DivSmall(a, den) ==
  IF a = <<>> THEN [q |-> <<>>, r |-> 0]
  ELSE LET high == DivSmall(Tail(a), den)
           cur == Base * high.r + a[1]
       IN [q |-> <<cur \div den>> \o high.q, r |-> cur % den]

\* a * 2^k
ShiftLeft(a, k) ==
  [i \in 1..(k \div LimbBits) |-> 0] \o MulSmall(a, Pow2(k % LimbBits))

\* floor(a / 2^k), and whether a bit was shifted out
ShiftRight(a, k) ==
  LET n == k \div LimbBits
      d == DivSmall(SubSeq(a, n + 1, Len(a)), Pow2(k % LimbBits))
  IN [q |-> Strip(d.q),
      sticky |-> d.r # 0 \/ \E i \in 1..n : Limb(a, i) # 0]

RECURSIVE BitLength(_)
BitLength(n) == IF n = 0 THEN 0 ELSE 1 + BitLength(n \div 2)

\* the number of bits of a, which has no leading zero limb
BitsOf(a) ==
  IF a = <<>> THEN 0 ELSE LimbBits * (Len(a) - 1) + BitLength(a[Len(a)])

\* the bits of a double's significand
Precision == 53

\* The double nearest to the number m * 2^e (plus a nonzero rest below its
\* last bit when sticky), ties to even.
RoundToDouble(m, e, sticky) ==
  LET a == Strip(m)
      s == BitsOf(a) - Precision
  IN IF s <= 0 THEN [m |-> a, e |-> e]
     ELSE LET t == ShiftRight(a, s - 1)    \* the quotient and the round bit
              q == ShiftRight(t.q, 1).q
              odd == Limb(q, 1) % 2 = 1
              up == Limb(t.q, 1) % 2 = 1 /\ (sticky \/ t.sticky \/ odd)
          IN [m |-> IF up THEN AddLimbs(q, <<1>>) ELSE q, e |-> e + s]

\* float(n) of an int
FloatOfInt(n) == RoundToDouble(NatToLimbs(n), 0, FALSE)

\* the bits of the quotient worked out before rounding
QuotientBits == 75

\* the float a caller passes when writing the fraction num/den: the double
\* nearest to it
PyFloat(num, den) ==
  LET d == DivSmall(ShiftLeft(NatToLimbs(num), QuotientBits), den)
  IN RoundToDouble(d.q, -QuotientBits, d.r # 0)

\* x * y
FloatMul(x, y) == RoundToDouble(MulLimbs(x.m, y.m), x.e + y.e, FALSE)

\* the significand of x at the exponent e <= x.e
AtExponent(x, e) == ShiftLeft(x.m, x.e - e)

MinExponent(x, y) == IF x.e < y.e THEN x.e ELSE y.e

\* x + y
FloatAdd(x, y) ==
  LET e == MinExponent(x, y)
  IN RoundToDouble(AddLimbs(AtExponent(x, e), AtExponent(y, e)), e, FALSE)

\* x - y, for x >= y
FloatSub(x, y) ==
  LET e == MinExponent(x, y)
  IN RoundToDouble(SubLimbs(AtExponent(x, e), AtExponent(y, e)), e, FALSE)

\* x / 2
FloatHalf(x) == [x EXCEPT !.e = x.e - 1]

\* the integer part of x
Truncate(x) ==
  IF x.e >= 0 THEN LimbsToNat(AtExponent(x, 0))
  ELSE LimbsToNat(ShiftRight(x.m, -x.e).q)

\* a plausible slip: int(x + 0.5), rounding to the nearest in place of int(x)
PyRound(x) == Truncate(FloatAdd(x, [m |-> <<1>>, e |-> -1]))

\* int(x) of Python for a float x >= 0
PyInt(x) == Truncate(x)

\* _divide_image_left_and_right: the crop boxes and the offset.  overlap is
\* the fraction the caller wrote.
DivideImageLeftAndRight(width, height, overlap) ==
  LET x_overlap == FloatMul(FloatOfInt(width), PyFloat(overlap.num, overlap.den))
      left_x  == PyInt(FloatHalf(FloatAdd(FloatOfInt(width), x_overlap)))
      right_x == PyInt(FloatHalf(FloatSub(FloatOfInt(width), x_overlap)))
  IN [first  |-> [width |-> left_x, height |-> height],
      second |-> [width |-> width - right_x, height |-> height],
      offset |-> right_x]

\* _divide_image_top_and_bottom: the crop boxes and the offset
DivideImageTopAndBottom(width, height, overlap) ==
  LET y_overlap == FloatMul(FloatOfInt(height), PyFloat(overlap.num, overlap.den))
      top_y    == PyInt(FloatHalf(FloatAdd(FloatOfInt(height), y_overlap)))
      bottom_y == PyInt(FloatHalf(FloatSub(FloatOfInt(height), y_overlap)))
  IN [first  |-> [width |-> width, height |-> top_y],
      second |-> [width |-> width, height |-> height - bottom_y],
      offset |-> bottom_y]

\* a plausible slip: width > height in place of width >= height
SplitsLeftAndRightStrict(width, height) == width > height

\* the elif of _call_vision_api_helper: the left/right branch is taken
SplitsLeftAndRight(width, height) == width >= height

\* image.save(file) raises for an image without pixels
IsEmpty(img) == img.width <= 0 \/ img.height <= 0

\* The sizes a tile's file can have: the crop of an image encodes no larger
\* than the image.
TileSizes(parentSize) == {s \in FileSizes : ~Lt(parentSize, s)}

----------------------------------------------------------------------------
(* The Response Merger. *)

\* _add_offset on one bounding box
AddOffset(offset, box, axis) ==
  [i \in DOMAIN box |->
     << IF axis = "x" THEN box[i][1] + offset ELSE box[i][1],
        IF axis = "y" THEN box[i][2] + offset ELSE box[i][2] >>]

\* the loop body of _merge_responses for one page of sub_response2
ShiftPage(offset, page, axis) ==
  [page EXCEPT !.boxes = [l \in Levels |-> AddOffset(offset, page.boxes[l], axis)]]

\* sub_response.full_text_annotation exists on a Vision API response only:
\* the dict _merge_responses returns has no such attribute
HasFullTextAnnotation(response) == response.kind = "response"

\* _merge_responses, when both arguments have full_text_annotation
MergeResponses(offset, sub_response1, sub_response2, axis) ==
  [kind  |-> "dict",
   error |-> 0,
   text  |-> sub_response1.text \o <<Space>> \o sub_response2.text,
   pages |-> sub_response1.pages \o
             [i \in DOMAIN sub_response2.pages |->
                ShiftPage(offset, sub_response2.pages[i], axis)]]

----------------------------------------------------------------------------
(* The Recursive OCR Driver. *)

Frame(tile, img, mb, origin) ==
  [tile |-> tile, width |-> img.width, height |-> img.height, size |-> img.size,
   max_size_megabytes |-> mb, origin |-> origin,
   pc |-> "enter", axis |-> "none", offset |-> 0,
   first |-> [width |-> 0, height |-> 0],
   second |-> [width |-> 0, height |-> 0],
   response1 |-> NoResponse, response2 |-> NoResponse]

Top == stack[Len(stack)]

\* max_size_bytes of a frame
MaxSizeBytes(frame) == TimesMegabyte(frame.max_size_megabytes)

\* the origin in the original image of the second tile of a frame
SecondOrigin(frame, axis, offset) ==
  IF axis = "x" THEN << frame.origin[1] + offset, frame.origin[2] >>
  ELSE << frame.origin[1], frame.origin[2] + offset >>

Init ==
  /\ \E w \in 1..MaxDim, h \in 1..MaxDim, s \in FileSizes,
        mb \in MaxSizeMegabytes, ov \in Overlaps :
       /\ args = [max_size_megabytes |-> mb, overlap |-> ov, image |-> Image(w, h, s)]
       /\ files = AddFile(<<>>, Original, Image(w, h, s))
       /\ stack = << Frame(Original, Image(w, h, s), mb, <<0, 0>>) >>
  /\ ocrCalls = {}
  /\ status = "running"
  /\ error = "none"
  /\ result = NoResponse

\* an exception propagates out of every frame: nothing catches it
Raise(exception) ==
  /\ status' = "failed"
  /\ error' = exception
  /\ stack' = <<>>
  /\ result' = NoResponse

\* return response: to the caller's frame, or out of call_vision_api
Return(response) ==
  /\ error' = error
  /\ IF Len(stack) = 1
     THEN /\ status' = "returned"
          /\ result' = response
          /\ stack' = <<>>
     ELSE LET parent == stack[Len(stack) - 1]
              resumed == IF parent.pc = "first"
                         THEN [parent EXCEPT !.pc = "second", !.response1 = response]
                         ELSE [parent EXCEPT !.pc = "merge", !.response2 = response]
          IN /\ stack' = SubSeq(stack, 1, Len(stack) - 2) \o <<resumed>>
             /\ status' = status
             /\ result' = result

\* the call _call_vision_api_helper(file, max_size_bytes, overlap) made by
\* the top frame, which becomes caller
Call(caller, tile, origin, fs) ==
  IF Len(stack) >= MaxDepth
  THEN Raise("RecursionError")
  ELSE /\ stack' = SubSeq(stack, 1, Len(stack) - 1) \o
                   << caller, Frame(tile, fs[tile], MaxSizeBytes(caller), origin) >>
       /\ UNCHANGED <<status, error, result>>

\* lines 91-94: the file is under the budget of this frame
DirectOcr ==
  /\ status = "running" /\ Top.pc = "enter"
  /\ Lt(Top.size, MaxSizeBytes(Top))
  /\ \E outcome \in OcrOutcomes :
       LET response == DocumentTextDetection(Top, outcome)
       IN /\ ocrCalls' = ocrCalls \cup
               {[tile |-> Top.tile, size |-> Top.size, error |-> response.error]}
          /\ Return(response)
  /\ UNCHANGED <<args, files>>

\* lines 96-100 and 110-114: divide the image, remove it, recurse into the
\* first tile
Divide(axis, d) ==
  IF IsEmpty(d.first)
  THEN \* left.save / top.save raises before any file is written
       /\ Raise("EmptyImage")
       /\ UNCHANGED files
  ELSE IF IsEmpty(d.second)
  THEN \E s1 \in TileSizes(Top.size) :
       /\ files' = AddFile(files, Top.tile \o <<1>>,
                           Image(d.first.width, d.first.height, s1))
       /\ Raise("EmptyImage")
  ELSE \E s1 \in TileSizes(Top.size), s2 \in TileSizes(Top.size) :
       LET t1 == Top.tile \o <<1>>
           t2 == Top.tile \o <<2>>
           fs == RemoveFile(
                   AddFile(AddFile(files, t1, Image(d.first.width, d.first.height, s1)),
                           t2, Image(d.second.width, d.second.height, s2)),
                   Top.tile)
           caller == [Top EXCEPT !.pc = "first", !.axis = axis, !.offset = d.offset,
                                 !.first = d.first, !.second = d.second]
       IN /\ files' = fs
          /\ Call(caller, t1, Top.origin, fs)

DivideLeftAndRight ==
  /\ status = "running" /\ Top.pc = "enter"
  /\ ~Lt(Top.size, MaxSizeBytes(Top))
  /\ SplitsLeftAndRight(Top.width, Top.height)
  /\ Divide("x", DivideImageLeftAndRight(Top.width, Top.height, args.overlap))
  /\ UNCHANGED <<args, ocrCalls>>

DivideTopAndBottom ==
  /\ status = "running" /\ Top.pc = "enter"
  /\ ~Lt(Top.size, MaxSizeBytes(Top))
  /\ ~SplitsLeftAndRight(Top.width, Top.height)
  /\ Divide("y", DivideImageTopAndBottom(Top.width, Top.height, args.overlap))
  /\ UNCHANGED <<args, ocrCalls>>

\* lines 103 and 117: the first tile's call has returned, recurse into the
\* second tile
RecurseSecond ==
  /\ status = "running" /\ Top.pc = "second"
  /\ LET t2 == Top.tile \o <<2>>
     IN Call(Top, t2, SecondOrigin(Top, Top.axis, Top.offset), files)
  /\ UNCHANGED <<args, files, ocrCalls>>

\* lines 106-108 and 119-121 with _merge_responses
Merge(sub_response1, sub_response2, axis) ==
  IF HasFullTextAnnotation(sub_response1) /\ HasFullTextAnnotation(sub_response2)
  THEN Return(MergeResponses(Top.offset, sub_response1, sub_response2, axis))
  ELSE Raise("AttributeError")

\* line 106: _merge_responses(offset, left_response, right_response, HORIZONTAL)
MergeLeftAndRight ==
  /\ status = "running" /\ Top.pc = "merge" /\ Top.axis = "x"
  /\ Merge(Top.response1, Top.response2, "x")
  /\ UNCHANGED <<args, files, ocrCalls>>

\* line 119: _merge_responses(offset, bottom_response, top_response, VERTICAL)
MergeTopAndBottom ==
  /\ status = "running" /\ Top.pc = "merge" /\ Top.axis = "y"
  /\ Merge(Top.response2, Top.response1, "y")
  /\ UNCHANGED <<args, files, ocrCalls>>

Next ==
  \/ DirectOcr
  \/ DivideLeftAndRight
  \/ DivideTopAndBottom
  \/ RecurseSecond
  \/ MergeLeftAndRight
  \/ MergeTopAndBottom

Spec == Init /\ [][Next]_vars

\* The Tile Splitter alone: one image over the default budget, of one of
\* many extents along its split axis, is divided once.
InitSplit ==
  /\ \E d \in 1..MaxSplitDim, long \in {"width", "height"}, ov \in SplitOverlaps :
       LET img == IF long = "width" THEN Image(d, 1, Quantity(40, 1))
                  ELSE Image(1, d, Quantity(40, 1))
       IN /\ args = [max_size_megabytes |-> Quantity(20, 0), overlap |-> ov,
                     image |-> img]
          /\ files = AddFile(<<>>, Original, img)
          /\ stack = << Frame(Original, img, Quantity(20, 0), <<0, 0>>) >>
  /\ ocrCalls = {}
  /\ status = "running"
  /\ error = "none"
  /\ result = NoResponse

NextSplit ==
  \/ DivideLeftAndRight
  \/ DivideTopAndBottom

SplitSpec == InitSplit /\ [][NextSplit]_vars

----------------------------------------------------------------------------
(* Properties. *)

Finished == status \in {"returned", "failed"}

\* the frames of the Internal nodes: those that have divided their image
Internal == {i \in DOMAIN stack : stack[i].pc # "enter"}

ValidOverlap == 0 < args.overlap.num /\ args.overlap.num < args.overlap.den

\* maxSizeBytes of the root call
RootBudget == TimesMegabyte(args.max_size_megabytes)

\* the call is made with the default max_size_megabytes=20 and a valid overlap
DefaultBudget == ValidOverlap /\ args.max_size_megabytes = Quantity(20, 0)

RootOverBudget == ~Lt(args.image.size, RootBudget)

\* every vertex of the page is its vertex in the tile plus the tile's origin
InOriginalSpace(page) ==
  \A l \in Levels : \A i \in DOMAIN page.local :
    page.boxes[l][i] = << page.local[i][1] + page.origin[1],
                          page.local[i][2] + page.origin[2] >>

PageTiles(pages) == [i \in DOMAIN pages |-> pages[i].tile]

\* a step in which the top frame merges the responses of its two tiles
Merging == status = "running" /\ Top.pc = "merge"

\* the response the step of the top frame hands to its caller
Delivered ==
  IF Len(stack) = 1 THEN result'
  ELSE IF stack[Len(stack) - 1].pc = "first"
       THEN stack'[Len(stack')].response1
       ELSE stack'[Len(stack')].response2

\* C1 (for the default budget): in the response call_vision_api returns, every bounding-box vertex is
\* in the coordinates of the original image: a page recognised in a tile has
\* the tile's origin added, for a left/right and for a top/bottom split.
C1_OriginalCoordinates ==
  (DefaultBudget /\ status = "returned") =>
    \A i \in DOMAIN result.pages : InOriginalSpace(result.pages[i])

\* C2 (for the default budget): every image sent to the external OCR, at any depth, is smaller than
\* the maxSizeBytes of the root call.
C2_RootBudgetEverywhere ==
  DefaultBudget => \A c \in ocrCalls : Lt(c.size, RootBudget)

\* C3 (for the default budget): when the OCR call of a leaf tile returned an error code,
\* call_vision_api returns no merged response.
C3_NoPartialResponse ==
  (DefaultBudget /\ status = "returned" /\ result.kind = "dict") =>
    \A c \in ocrCalls : c.error = 0

\* C4 (for the default budget): the response an Internal node returns has the first tile's text, a
\* space, the second tile's text, and the first tile's pages followed by the
\* second tile's pages, the first tile being the left or the top one.
C4_FirstThenSecond ==
  [][ (DefaultBudget /\ Merging /\ status' # "failed") =>
        /\ Delivered.text = Top.response1.text \o <<Space>> \o Top.response2.text
        /\ PageTiles(Delivered.pages) =
             PageTiles(Top.response1.pages) \o PageTiles(Top.response2.pages) ]_vars

\* floor(n / d) = k, stated without division
IsFloor(k, n, d) == d * k <= n /\ n < d * (k + 1)

\* At every node that was divided, d being its width for a left/right and
\* its height for a top/bottom split and f the overlap: the offset is
\* floor(d*(1-f)/2), the first tile's extent along the axis is
\* floor(d*(1+f)/2), the second tile's is d - offset, and the other extent
\* of both tiles is that of the image.
FloorSplit ==
    \A i \in Internal :
      LET f == stack[i]
          num == args.overlap.num
          den == args.overlap.den
          d == IF f.axis = "x" THEN f.width ELSE f.height
          e1 == IF f.axis = "x" THEN f.first.width ELSE f.first.height
          e2 == IF f.axis = "x" THEN f.second.width ELSE f.second.height
          o1 == IF f.axis = "x" THEN f.first.height ELSE f.first.width
          o2 == IF f.axis = "x" THEN f.second.height ELSE f.second.width
          o  == IF f.axis = "x" THEN f.height ELSE f.width
      IN /\ IsFloor(f.offset, d * (den - num), 2 * den)
         /\ IsFloor(e1, d * (den + num), 2 * den)
         /\ e2 = d - f.offset
         /\ o1 = o /\ o2 = o

RECURSIVE IsPowerOfTwo(_)
IsPowerOfTwo(n) == n = 1 \/ (n > 1 /\ n % 2 = 0 /\ IsPowerOfTwo(n \div 2))

DyadicOverlap == IsPowerOfTwo(args.overlap.den)

C6_NestedOffsets ==
  /\ ((ValidOverlap /\ status = "failed") => error # "AttributeError")
  /\ ((ValidOverlap /\ status = "returned") =>
        \A i \in DOMAIN result.pages :
          Len(result.pages[i].tile) >= 2 => InOriginalSpace(result.pages[i]))

\* C7: a call that stops because splitting does not bring an image under
\* the budget (a tile has no pixels left, or the recursion is as deep as
\* the interpreter allows) fails with TooLarge.
C7_TooLarge ==
  (ValidOverlap /\ status = "failed" /\ error \in {"EmptyImage", "RecursionError"}) =>
    error = "TooLarge"

\* C8: when the call has finished, no tile image file exists (stated for
\* the calls that return a response).
C8_TilesReleased ==
  (DefaultBudget /\ status = "returned") =>
    \A name \in DOMAIN files : name = Original

\* C10 (for the default budget): with an overlap that is not strictly between 0 and 1 and an image
\* over the budget, no tile file is written, no OCR call is made, and the
\* call fails with InvalidInput.
C10_InvalidInput ==
  (~ValidOverlap /\ args.max_size_megabytes = Quantity(20, 0) /\ RootOverBudget) =>
    /\ \A name \in DOMAIN files : name = Original
    /\ ocrCalls = {}
    /\ (Finished => status = "failed" /\ error = "InvalidInput")

\* along the axis a vertex moved by 0 or by the offset, across it by nothing
MovedAlong(axis, offset, old, new) ==
  \A l \in Levels : \A i \in DOMAIN old.boxes[l] :
    LET a == IF axis = "x" THEN 1 ELSE 2
        b == IF axis = "x" THEN 2 ELSE 1
    IN /\ new.boxes[l][i][b] = old.boxes[l][i][b]
       /\ new.boxes[l][i][a] - old.boxes[l][i][a] \in {0, offset}

\* the axis of every node that has divided its image, and the shape of its
\* two tiles
C9_AxisAtNode ==
  \A i \in Internal :
    LET f == stack[i]
    IN IF f.width >= f.height
       THEN /\ f.axis = "x"
            /\ f.first.height = f.height /\ f.second.height = f.height
            /\ f.first.width + f.second.width >= f.width
       ELSE /\ f.axis = "y"
            /\ f.first.width = f.width /\ f.second.width = f.width
            /\ f.first.height + f.second.height >= f.height

\* a merge step moves the vertices of the merged pages along the axis that
\* width >= height selects, and moves some vertex when the offset is not 0
C9_AxisAtMerge ==
  (Merging /\ status' # "failed") =>
    LET axis == IF Top.width >= Top.height THEN "x" ELSE "y"
        before == Top.response1.pages \o Top.response2.pages
    IN /\ Len(Delivered.pages) = Len(before)
       /\ \A i \in DOMAIN Delivered.pages :
            \E j \in DOMAIN before :
              /\ before[j].tile = Delivered.pages[i].tile
              /\ MovedAlong(axis, Top.offset, before[j], Delivered.pages[i])
       /\ (Top.offset # 0 /\ Len(Top.response1.pages) > 0
                          /\ Len(Top.response2.pages) > 0) =>
            \E i \in DOMAIN Delivered.pages : \E j \in DOMAIN before :
              /\ before[j].tile = Delivered.pages[i].tile
              /\ before[j].boxes # Delivered.pages[i].boxes

\* C9: every node that divides its image divides it into a left and a right
\* tile when width >= height (squares included), into a top and a bottom
\* tile otherwise, and its merge moves vertices along the axis of its split
\* only.
C9_AxisSelection == [](C9_AxisAtNode) /\ [][C9_AxisAtMerge]_vars

\* a square image was divided and its two responses, both with a page,
\* were merged with an offset that is not 0
C9_Witness ==
  /\ status = "returned" /\ result.kind = "dict"
  /\ args.image.width = args.image.height
  /\ Len(result.pages) = 2
  /\ \E i \in DOMAIN result.pages : result.pages[i].boxes["word"] # result.pages[i].local

====
